---- MODULE Spec2Model ----
(***************************************************************************)
(* Model of bittensor/_metagraph/metagraph_impl.py: the Metagraph object   *)
(* (a torch.nn.Module whose parameters are the snapshot fields), its       *)
(* clear / sync / save / load operations and its derived views.            *)
(*                                                                         *)
(* A tensor of shape (k) is a sequence of length k, a matrix a sequence of *)
(* rows.  An attribute that may be None or missing is an option: <<>> for  *)
(* None / no such attribute, <<v>> for the value v.                        *)
(***************************************************************************)
EXTENDS Integers, Sequences, FiniteSets, TLC

VARIABLES mg, file, last, pc, loc

vars == <<mg, file, last, pc, loc>>

(***************************************************************************)
(* Bounds of the model.                                                    *)
(***************************************************************************)
\* longest neuron list the ledger answers with
MaxN == 2
\* number of sync calls a thread makes in the concurrent specification
MaxCalls == 1

\* highest block height the ledger answers with
MaxBlock == 2

\* block heights the ledger answers with
Blocks == 1..MaxBlock
\* the threads of the concurrent specification
Threads == {1, 2}

None == <<>>
Some(v) == <<v>>
IsNone(o) == o = <<>>
Get(o) == o[1]

(***************************************************************************)
(* Neuron records as the ledger returns them (subtensor.neurons()).        *)
(* NeuronB points at peer uid 1, so a list that holds it is convertible    *)
(* only when it has two records; <<NeuronB, NeuronA>> puts uid 1 first.    *)
(***************************************************************************)
NeuronA ==
    [ uid |-> 0, active |-> 1, stake |-> 1000000000, rank |-> 250000000,
      trust |-> 1, consensus |-> 2, incentive |-> 3, inflation |-> 4,
      dividends |-> 5, last_update |-> 7,
      hotkey |-> "hotA", coldkey |-> "coldA", ip_type |-> 4, ip |-> "10.0.0.1",
      port |-> 8091, modality |-> 0,
      weights |-> << <<0, 3>> >>, bonds |-> << >> ]

NeuronB ==
    [ uid |-> 1, active |-> 0, stake |-> 500000000, rank |-> 750000000,
      trust |-> 6, consensus |-> 7, incentive |-> 8, inflation |-> 9,
      dividends |-> 10, last_update |-> 8,
      hotkey |-> "hotB", coldkey |-> "coldB", ip_type |-> 6, ip |-> "10.0.0.2",
      port |-> 8092, modality |-> 1,
      weights |-> << <<1, 5>> >>, bonds |-> << <<0, 2>>, <<1, 4>> >> ]

NeuronRecords == {NeuronA, NeuronB}

SeqsUpTo(S, k) == UNION { [1..m -> S] : m \in 0..k }

\* what subtensor.neurons() can return: no neuron twice, in any order
NeuronLists ==
    { ns \in SeqsUpTo(NeuronRecords, MaxN) :
        \A i, j \in 1..Len(ns) : ns[i] = ns[j] => i = j }

\* an answer of the ledger collaborator: a value, or a failure of the call
Failed == [ok |-> FALSE, val |-> <<>>]
Answer(v) == [ok |-> TRUE, val |-> v]
BlockAnswers == {Failed} \cup { Answer(b) : b \in Blocks }
NeuronAnswers == {Failed} \cup { Answer(ns) : ns \in NeuronLists }

(***************************************************************************)
(* Numeric conversions.                                                    *)
(***************************************************************************)
\* x / float(1000000000): the rational x / 10^9, kept as <<numerator, denominator>>
Div9(x) == <<x, 1000000000>>

RECURSIVE F32Scale(_, _)
\* the spacing of float32 values around the non-negative integer x
F32Scale(x, s) == IF x \div s < 16777216 THEN s ELSE F32Scale(x, 2 * s)

\* torch.tensor( x, dtype=torch.float32 ) of a non-negative integer x:
\* 24 bits of mantissa, round to nearest, ties to even
F32Int(x) ==
    LET s == F32Scale(x, 1)
        q == x \div s
        r == x % s
    IN  IF 2 * r < s \/ (2 * r = s /\ q % 2 = 0) THEN q * s ELSE (q + 1) * s

F32Seq(xs) == [ i \in 1..Len(xs) |-> F32Int(xs[i]) ]

(***************************************************************************)
(* bittensor.endpoint and its tensor codec.                                *)
(***************************************************************************)
\* the strings that occur in endpoints, in the order of their numeric code
KeyTable == << "hotA", "hotB", "coldA", "coldB", "10.0.0.1", "10.0.0.2" >>

KeyCode(s) == CHOOSE i \in 1..Len(KeyTable) : KeyTable[i] = s

\* bittensor.endpoint( uid = int(n.uid), hotkey = str(n.hotkey), ... )
endpoint(n) ==
    [ uid |-> n.uid, hotkey |-> n.hotkey, ip_type |-> n.ip_type, ip |-> n.ip,
      port |-> n.port, modality |-> n.modality, coldkey |-> n.coldkey ]

\* endpoint.to_tensor().tolist(): the fixed-width integer record of 7 fields
to_tensor(e) ==
    << e.uid, KeyCode(e.hotkey), e.ip_type, KeyCode(e.ip), e.port, e.modality,
       KeyCode(e.coldkey) >>

\* bittensor.endpoint.from_tensor( tensor )
from_tensor(t) ==
    [ uid |-> t[1], hotkey |-> KeyTable[t[2]], ip_type |-> t[3], ip |-> KeyTable[t[4]],
      port |-> t[5], modality |-> t[6], coldkey |-> KeyTable[t[7]] ]

\* net.ip__str__( ip_type, ip, port )
ip__str__(ip_type, ip, port) == <<ip_type, ip, port>>

(***************************************************************************)
(* weight_utils.convert_weight_uids_and_vals_to_tensor( n, uids, vals ):   *)
(* the dense row of length n, or a failure when a uid is outside [0, n).   *)
(***************************************************************************)
RECURSIVE DenseFill(_, _, _)
DenseFill(row, pairs, k) ==
    IF k > Len(pairs) THEN row
    ELSE DenseFill([row EXCEPT ![pairs[k][1] + 1] = pairs[k][2]], pairs, k + 1)

convert_weight_uids_and_vals_to_tensor(n, pairs) ==
    IF \E k \in 1..Len(pairs) : pairs[k][1] < 0 \/ pairs[k][1] >= n
    THEN [ok |-> FALSE, row |-> <<>>]
    ELSE [ok |-> TRUE, row |-> DenseFill([i \in 1..n |-> 0], pairs, 1)]

(***************************************************************************)
(* The Metagraph object.  Its fields are the attributes of self; uids and  *)
(* last_update are attributes only once some operation has assigned them.  *)
(***************************************************************************)
\* bittensor.__version_as_int__
version_as_int == <<"bittensor.__version_as_int__">>

\* torch.tensor( [0.5], dtype=torch.float32 ): the rational 1/2
TauInit == <<1, 2>>

\* Metagraph.clear: every attribute it assigns; uids and last_update are not among them
clear(m) ==
    [ m EXCEPT !.version = version_as_int, !.n = 0, !.tau = TauInit, !.block = 0,
               !.stake = <<>>, !.ranks = <<>>, !.trust = <<>>, !.consensus = <<>>,
               !.incentive = <<>>, !.inflation = <<>>, !.dividends = <<>>,
               !.active = <<>>, !.lastupdate = <<>>, !.weights = <<>>,
               !.bonds = <<>>, !.endpoints = <<>>, !.endpoint_objs = None ]

\* the object before __init__ has assigned anything
NoAttributes ==
    [ version |-> <<>>, n |-> 0, tau |-> <<>>, block |-> 0, uids |-> None,
      stake |-> <<>>, ranks |-> <<>>, trust |-> <<>>, consensus |-> <<>>,
      incentive |-> <<>>, inflation |-> <<>>, dividends |-> <<>>, active |-> <<>>,
      lastupdate |-> <<>>, last_update |-> None, weights |-> <<>>, bonds |-> <<>>,
      endpoints |-> <<>>, endpoint_objs |-> None ]

\* Metagraph.__init__: self.clear()
MetagraphInit == clear(NoAttributes)

(***************************************************************************)
(* Derived views.                                                          *)
(***************************************************************************)
\* the endpoint_objs property: the value returned and the object afterwards
endpoint_objs(m) ==
    IF m.n = 0 THEN [mg |-> m, ret |-> <<>>]
    ELSE IF ~IsNone(m.endpoint_objs) THEN [mg |-> m, ret |-> Get(m.endpoint_objs)]
    ELSE LET objs == [ i \in 1..Len(m.endpoints) |-> from_tensor(m.endpoints[i]) ]
         IN  [mg |-> [m EXCEPT !.endpoint_objs = Some(objs)], ret |-> objs]

hotkeys(m) ==
    IF m.n = 0 THEN <<>>
    ELSE LET objs == endpoint_objs(m).ret IN [ i \in 1..Len(objs) |-> objs[i].hotkey ]

coldkeys(m) ==
    IF m.n = 0 THEN <<>>
    ELSE LET objs == endpoint_objs(m).ret IN [ i \in 1..Len(objs) |-> objs[i].coldkey ]

modalities(m) ==
    IF m.n = 0 THEN <<>>
    ELSE LET objs == endpoint_objs(m).ret IN [ i \in 1..Len(objs) |-> objs[i].modality ]

addresses(m) ==
    IF m.n = 0 THEN <<>>
    ELSE LET objs == endpoint_objs(m).ret
         IN  [ i \in 1..Len(objs) |-> ip__str__(objs[i].ip_type, objs[i].ip, objs[i].port) ]

(***************************************************************************)
(* Metagraph.sync.                                                         *)
(***************************************************************************)
\* the local lists of sync, all empty ("Fill arrays")
SyncLocals ==
    [ uids |-> <<>>, active |-> <<>>, stake |-> <<>>, ranks |-> <<>>, trust |-> <<>>,
      consensus |-> <<>>, incentive |-> <<>>, inflation |-> <<>>, dividends |-> <<>>,
      last_updates |-> <<>>, endpoints |-> <<>>, weights |-> <<>>, bonds |-> <<>> ]

\* one pass of "for n in neurons" on record n: l are the local lists, objs is
\* self._endpoint_objs as the pass finds it (an option).  The endpoint is appended
\* to self._endpoint_objs before the weights and the bonds are converted.
SyncIter(l, objs, n, n_total) ==
    IF IsNone(objs) THEN [ok |-> FALSE, l |-> l, objs |-> objs]
    ELSE
    LET e  == endpoint(n)
        o2 == Some(Append(Get(objs), e))
        w  == IF Len(n.weights) > 0
              THEN convert_weight_uids_and_vals_to_tensor(n_total, n.weights)
              ELSE [ok |-> TRUE, row |-> [i \in 1..n_total |-> 0]]
        b  == IF Len(n.bonds) > 0
              THEN convert_weight_uids_and_vals_to_tensor(n_total, n.bonds)
              ELSE [ok |-> TRUE, row |-> [i \in 1..n_total |-> 0]]
    IN  IF ~w.ok \/ ~b.ok THEN [ok |-> FALSE, l |-> l, objs |-> o2]
        ELSE [ ok |-> TRUE, objs |-> o2,
               l |-> [ uids         |-> Append(l.uids, n.uid),
                       active       |-> Append(l.active, n.active),
                       stake        |-> Append(l.stake, Div9(n.stake)),
                       ranks        |-> Append(l.ranks, Div9(n.rank)),
                       trust        |-> Append(l.trust, Div9(n.trust)),
                       consensus    |-> Append(l.consensus, Div9(n.consensus)),
                       incentive    |-> Append(l.incentive, Div9(n.incentive)),
                       inflation    |-> Append(l.inflation, Div9(n.inflation)),
                       dividends    |-> Append(l.dividends, n.dividends),
                       last_updates |-> Append(l.last_updates, n.last_update),
                       endpoints    |-> Append(l.endpoints, to_tensor(e)),
                       weights      |-> Append(l.weights, w.row),
                       bonds        |-> Append(l.bonds, b.row) ] ]

RECURSIVE SyncLoop(_, _, _, _)
\* the whole loop from record i on; stops at the first pass that fails
SyncLoop(l, objs, neurons, i) ==
    IF i > Len(neurons) THEN [ok |-> TRUE, l |-> l, objs |-> objs]
    ELSE LET r == SyncIter(l, objs, neurons[i], Len(neurons))
         IN  IF r.ok THEN SyncLoop(r.l, r.objs, neurons, i + 1) ELSE r

\* "Set tensors" with the bonds and the weights lists taken for one another
SyncTensorsSwapped(block, n_total, l) ==
    [ n |-> F32Int(n_total), block |-> F32Int(block), uids |-> F32Seq(l.uids),
      active |-> F32Seq(l.active), stake |-> l.stake, ranks |-> l.ranks,
      trust |-> l.trust, consensus |-> l.consensus, incentive |-> l.incentive,
      inflation |-> l.inflation, dividends |-> F32Seq(l.dividends),
      last_update |-> l.last_updates, bonds |-> l.weights, weights |-> l.bonds,
      endpoints |-> l.endpoints ]

\* "Set tensors": the local lists as tensors
SyncTensors(block, n_total, l) ==
    [ n |-> F32Int(n_total), block |-> F32Int(block), uids |-> F32Seq(l.uids),
      active |-> F32Seq(l.active), stake |-> l.stake, ranks |-> l.ranks,
      trust |-> l.trust, consensus |-> l.consensus, incentive |-> l.incentive,
      inflation |-> l.inflation, dividends |-> F32Seq(l.dividends),
      last_update |-> l.last_updates, bonds |-> l.bonds, weights |-> l.weights,
      endpoints |-> l.endpoints ]

\* the number of assignments of "Set params"
NumSyncParams == 15

\* "Set params": the k-th assignment, in the order of the code
SyncAssign(m, t, k) ==
    CASE k = 1  -> [m EXCEPT !.n = t.n]
      [] k = 2  -> [m EXCEPT !.block = t.block]
      [] k = 3  -> [m EXCEPT !.uids = Some(t.uids)]
      [] k = 4  -> [m EXCEPT !.stake = t.stake]
      [] k = 5  -> [m EXCEPT !.ranks = t.ranks]
      [] k = 6  -> [m EXCEPT !.trust = t.trust]
      [] k = 7  -> [m EXCEPT !.consensus = t.consensus]
      [] k = 8  -> [m EXCEPT !.incentive = t.incentive]
      [] k = 9  -> [m EXCEPT !.inflation = t.inflation]
      [] k = 10 -> [m EXCEPT !.dividends = t.dividends]
      [] k = 11 -> [m EXCEPT !.active = t.active]
      [] k = 12 -> [m EXCEPT !.last_update = Some(t.last_update)]
      [] k = 13 -> [m EXCEPT !.weights = t.weights]
      [] k = 14 -> [m EXCEPT !.bonds = t.bonds]
      [] k = 15 -> [m EXCEPT !.endpoints = t.endpoints]

RECURSIVE SyncAssignFrom(_, _, _)
SyncAssignFrom(m, t, k) ==
    IF k > NumSyncParams THEN m ELSE SyncAssignFrom(SyncAssign(m, t, k), t, k + 1)

\* a sync whose "Set params" also assigns tau, from the block tensor
SyncBodySetsTau(m, block, neurons) ==
    LET r  == SyncLoop(SyncLocals, Some(<<>>), neurons, 1)
        m1 == [m EXCEPT !.endpoint_objs = r.objs]
        t  == SyncTensors(block, Len(neurons), r.l)
    IN  IF ~r.ok THEN [mg |-> m1, raised |-> TRUE, cause |-> "conversion"]
        ELSE [mg |-> [SyncAssignFrom(m1, t, 1) EXCEPT !.tau = <<t.block, 1>>],
              raised |-> FALSE, cause |-> "none"]

\* sync from "Fill arrays" on, once the ledger has answered
SyncBody(m, block, neurons) ==
    LET r  == SyncLoop(SyncLocals, Some(<<>>), neurons, 1)
        m1 == [m EXCEPT !.endpoint_objs = r.objs]
        t  == SyncTensors(block, Len(neurons), r.l)
    IN  IF ~r.ok THEN [mg |-> m1, raised |-> TRUE, cause |-> "conversion"]
        ELSE [mg |-> SyncAssignFrom(m1, t, 1), raised |-> FALSE, cause |-> "none"]

\* a sync that empties the cache before it asks the ledger
SyncResetsFirst(m, blockAns, neuronsAns) ==
    IF ~blockAns.ok \/ ~neuronsAns.ok
    THEN [mg |-> [m EXCEPT !.endpoint_objs = Some(<<>>)], raised |-> TRUE, cause |-> "ledger"]
    ELSE SyncBody(m, blockAns.val, neuronsAns.val)

\* a sync that files every record under its uid instead of its position in the list
SyncByUid(m, blockAns, neuronsAns) ==
    LET ns == neuronsAns.val
        byUid == CHOOSE s \in NeuronLists :
                    /\ Len(s) = Len(ns)
                    /\ \A i \in 1..Len(ns) : \E j \in 1..Len(s) : s[j] = ns[i]
                    /\ \A i, j \in 1..Len(s) : i < j => s[i].uid < s[j].uid
    IN  IF ~blockAns.ok \/ ~neuronsAns.ok
        THEN [mg |-> m, raised |-> TRUE, cause |-> "ledger"]
        ELSE SyncBody(m, blockAns.val, byUid)

\* Metagraph.sync: the object afterwards and whether the call raised
sync(m, blockAns, neuronsAns) ==
    IF ~blockAns.ok \/ ~neuronsAns.ok
    THEN [mg |-> m, raised |-> TRUE, cause |-> "ledger"]
    ELSE SyncBody(m, blockAns.val, neuronsAns.val)

(***************************************************************************)
(* Persistence: state_dict, save, load.                                    *)
(***************************************************************************)
\* Module.state_dict(): the parameters of the object (the cache is no parameter);
\* a parameter that was never assigned has no key
state_dict(m) == [ k \in (DOMAIN m) \ {"endpoint_objs"} |-> m[k] ]

HasKey(sd, key) == IF key \in {"uids", "last_update"} THEN ~IsNone(sd[key]) ELSE TRUE

\* the file of the network: absent, unreadable bytes, or a saved bundle
NoFile == [kind |-> "absent", data |-> None]
Garbage == [kind |-> "garbage", data |-> None]
BundleFile(sd) == [kind |-> "bundle", data |-> Some(sd)]

\* the keys load_from_state_dict reads, in the order of its assignments
LoadKeys ==
    << "version", "n", "tau", "block", "uids", "stake", "ranks", "trust", "consensus",
       "incentive", "inflation", "dividends", "active", "lastupdate", "weights",
       "bonds", "endpoints" >>

RECURSIVE LoadFrom(_, _, _)
\* the assignments of load_from_state_dict from the k-th on, then the cache reset
LoadFrom(m, sd, k) ==
    IF k > Len(LoadKeys)
    THEN [mg |-> [m EXCEPT !.endpoint_objs = None], raised |-> FALSE, cause |-> "none"]
    ELSE IF ~HasKey(sd, LoadKeys[k])
    THEN [mg |-> m, raised |-> TRUE, cause |-> "KeyError"]
    ELSE LoadFrom([m EXCEPT ![LoadKeys[k]] = sd[LoadKeys[k]]], sd, k + 1)

\* Metagraph.load_from_state_dict
load_from_state_dict(m, sd) == LoadFrom(m, sd, 1)

\* Metagraph.load_from_path: torch.load raises on an absent or unreadable file
load_from_path(m, f) ==
    CASE f.kind = "absent"  -> [mg |-> m, raised |-> TRUE, cause |-> "FileNotFoundError"]
      [] f.kind = "garbage" -> [mg |-> m, raised |-> TRUE, cause |-> "UnpicklingError"]
      [] f.kind = "bundle"  -> load_from_state_dict(m, Get(f.data))

\* a load that lets the exceptions of load_from_path through
LoadNoExcept(m, f) ==
    IF f.kind # "absent" THEN load_from_path(m, f)
    ELSE [mg |-> m, raised |-> FALSE, cause |-> "file does not exist"]

\* a load that erases the state when the file does not exist
LoadClearsOnMissing(m, f) ==
    IF f.kind # "absent"
    THEN LET r == load_from_path(m, f)
         IN  [mg |-> r.mg, raised |-> FALSE, cause |-> r.cause]
    ELSE [mg |-> clear(m), raised |-> FALSE, cause |-> "file does not exist"]

\* Metagraph.load: os.path.isfile, load_from_path, and "except Exception" around both
load(m, f) ==
    IF f.kind # "absent"
    THEN LET r == load_from_path(m, f)
         IN  [mg |-> r.mg, raised |-> FALSE, cause |-> r.cause]
    ELSE [mg |-> m, raised |-> FALSE, cause |-> "file does not exist"]

\* what the file system does to a save: os.makedirs fails, torch.save fails, or neither
IoOutcomes == {"ok", "makedirs fails", "write fails"}

\* a save that drops the cached endpoint objects once the bundle is written
SaveDropsCache(m, f, io) ==
    CASE io = "makedirs fails" -> [mg |-> m, file |-> f, raised |-> TRUE, cause |-> "IOError"]
      [] io = "write fails"    -> [mg |-> m, file |-> Garbage, raised |-> TRUE, cause |-> "IOError"]
      [] io = "ok"             -> [mg |-> [m EXCEPT !.endpoint_objs = None],
                                   file |-> BundleFile(state_dict(m)),
                                   raised |-> FALSE, cause |-> "none"]

\* Metagraph.save_to_path (Metagraph.save calls it with the network's file)
save_to_path(m, f, io) ==
    CASE io = "makedirs fails" -> [mg |-> m, file |-> f, raised |-> TRUE, cause |-> "IOError"]
      [] io = "write fails"    -> [mg |-> m, file |-> Garbage, raised |-> TRUE, cause |-> "IOError"]
      [] io = "ok"             -> [mg |-> m, file |-> BundleFile(state_dict(m)),
                                   raised |-> FALSE, cause |-> "none"]

(***************************************************************************)
(* The single-caller specification: every call runs to its end before the  *)
(* next one starts.  last is the call that ran last and how it ended.      *)
(***************************************************************************)
\* arg is what the call met: the ledger's answers, the file looked at, the io outcome;
\* input is filled in by a sync that succeeded: the block and the neurons it ingested
Called(op, arg, raised, cause) ==
    [op |-> op, arg |-> arg, raised |-> raised, cause |-> cause, input |-> <<>>]

IdleThreads == [ t \in Threads |-> "idle" ]

\* the locals of a sync call in flight: the ledger's answers, the loop position i,
\* the local lists l, the next "Set params" assignment k, and whether it returned
NoLocals ==
    [ block |-> 0, neurons |-> <<>>, i |-> 1, k |-> 1, l |-> SyncLocals,
      calls |-> 0, done |-> FALSE ]

Init ==
    /\ mg = MetagraphInit
    /\ file = NoFile
    /\ last = Called("init", "none", FALSE, "none")
    /\ pc = IdleThreads
    /\ loc = [ t \in Threads |-> NoLocals ]

Clear ==
    /\ mg' = clear(mg)
    /\ last' = Called("clear", "none", FALSE, "none")
    /\ UNCHANGED <<file, pc, loc>>

Sync ==
    \E blockAns \in BlockAnswers :
    \E neuronsAns \in IF blockAns.ok THEN NeuronAnswers ELSE {Failed} :
        LET r == sync(mg, blockAns, neuronsAns)
        IN  /\ mg' = r.mg
            /\ last' = [ Called("sync",
                                IF blockAns.ok /\ neuronsAns.ok THEN "answers"
                                                                ELSE "ledger fails",
                                r.raised, r.cause)
                         EXCEPT !.input = IF r.raised THEN <<>>
                                          ELSE <<blockAns.val, neuronsAns.val>> ]
            /\ UNCHANGED <<file, pc, loc>>

\* Metagraph.save: save_to_path on the file of the network
Save ==
    \E io \in IoOutcomes :
        LET r == save_to_path(mg, file, io)
        IN  /\ mg' = r.mg
            /\ file' = r.file
            /\ last' = Called("save", io, r.raised, r.cause)
            /\ UNCHANGED <<pc, loc>>

\* the file a load looks at: the one save writes, or that of a network never saved
FilesToLoad == {file, NoFile}

Load ==
    \E f \in FilesToLoad :
        LET r == load(mg, f)
        IN  /\ mg' = r.mg
            /\ last' = Called("load", f.kind, r.raised, r.cause)
            /\ UNCHANGED <<file, pc, loc>>

LoadFromPath ==
    \E f \in FilesToLoad :
        LET r == load_from_path(mg, f)
        IN  /\ mg' = r.mg
            /\ last' = Called("load_from_path", f.kind, r.raised, r.cause)
            /\ UNCHANGED <<file, pc, loc>>

\* a read of hotkeys, coldkeys, modalities, addresses or endpoint_objs
ReadViews ==
    /\ mg' = endpoint_objs(mg).mg
    /\ last' = Called("views", "none", FALSE, "none")
    /\ UNCHANGED <<file, pc, loc>>

Next == Clear \/ Sync \/ Save \/ Load \/ LoadFromPath \/ ReadViews

Spec == Init /\ [][Next]_vars

(***************************************************************************)
(* The concurrent specification: threads call sync on the same object with *)
(* no lock, one step per statement that touches self.  The ledger has the  *)
(* population LedgerHistory[b] at block b.                                 *)
(***************************************************************************)
LedgerHistory == << <<NeuronA>>, <<NeuronB, NeuronA>> >>

\* block = self.subtensor.get_current_block().  The ledger's height never goes
\* down, so b is at least every height read before; the threads are numbered in
\* the order of their first call.
SyncGetBlock(t) ==
    /\ pc[t] = "idle" /\ loc[t].calls < MaxCalls
    /\ \A u \in Threads : u < t => loc[u].calls > 0
    /\ \E b \in DOMAIN LedgerHistory :
          /\ \A u \in Threads : loc[u].block <= b
          /\ loc' = [loc EXCEPT ![t] = [NoLocals EXCEPT !.block = b,
                                                       !.calls = loc[t].calls + 1]]
    /\ pc' = [pc EXCEPT ![t] = "neurons"]
    /\ UNCHANGED <<mg, file, last>>

\* neurons = self.subtensor.neurons(); the ledger stands still during the call
SyncGetNeurons(t) ==
    /\ pc[t] = "neurons"
    /\ loc' = [loc EXCEPT ![t].neurons = LedgerHistory[loc[t].block]]
    /\ pc' = [pc EXCEPT ![t] = "reset"]
    /\ UNCHANGED <<mg, file, last>>

\* self._endpoint_objs = []
SyncReset(t) ==
    /\ pc[t] = "reset"
    /\ mg' = [mg EXCEPT !.endpoint_objs = Some(<<>>)]
    /\ pc' = [pc EXCEPT ![t] = IF Len(loc[t].neurons) = 0 THEN "assign" ELSE "loop"]
    /\ UNCHANGED <<loc, file, last>>

\* one pass of "for n in neurons"; after the last one the tensors are set
SyncLoopStep(t) ==
    /\ pc[t] = "loop"
    /\ LET ns == loc[t].neurons
           r  == SyncIter(loc[t].l, mg.endpoint_objs, ns[loc[t].i], Len(ns))
       IN  /\ mg' = [mg EXCEPT !.endpoint_objs = r.objs]
           /\ loc' = [loc EXCEPT ![t].l = r.l, ![t].i = loc[t].i + 1]
           /\ pc' = [pc EXCEPT ![t] = IF ~r.ok THEN "idle"
                                      ELSE IF loc[t].i = Len(ns) THEN "assign" ELSE "loop"]
    /\ UNCHANGED <<file, last>>

\* one assignment of "Set params"; the call returns after the last one
SyncAssignStep(t) ==
    /\ pc[t] = "assign"
    /\ LET tensors == SyncTensors(loc[t].block, Len(loc[t].neurons), loc[t].l)
       IN  mg' = SyncAssign(mg, tensors, loc[t].k)
    /\ loc' = [loc EXCEPT ![t].k = loc[t].k + 1, ![t].done = (loc[t].k = NumSyncParams)]
    /\ pc' = [pc EXCEPT ![t] = IF loc[t].k = NumSyncParams THEN "idle" ELSE "assign"]
    /\ UNCHANGED <<file, last>>

\* a reader, on any thread, between two steps of the others
Observe ==
    /\ mg' = endpoint_objs(mg).mg
    /\ UNCHANGED <<file, last, pc, loc>>

NextConc ==
    \/ \E t \in Threads :
          \/ SyncGetBlock(t)
          \/ SyncGetNeurons(t)
          \/ SyncReset(t)
          \/ SyncLoopStep(t)
          \/ SyncAssignStep(t)
    \/ Observe

SpecConc == Init /\ [][NextConc]_vars

(***************************************************************************)
(* What a caller can observe of the object.                                *)
(***************************************************************************)
\* the snapshot fields that are per-uid tables, as the interface names them
Vectors(m) ==
    << m.uids, m.active, m.stake, m.ranks, m.trust, m.consensus, m.incentive,
       m.inflation, m.dividends, m.lastupdate >>

Snapshot(m) == << m.n, m.block, Vectors(m), m.weights, m.bonds, m.endpoints >>

Views(m) == << hotkeys(m), coldkeys(m), modalities(m), addresses(m) >>

\* the endpoint records of the endpoints table, row by row
Decoded(m) == [ i \in 1..Len(m.endpoints) |-> from_tensor(m.endpoints[i]) ]

\* sd holds, field by field, what some successful sync assigns
IsSyncSnapshot(sd) ==
    \E b \in Blocks, ns \in NeuronLists :
        LET r == SyncLoop(SyncLocals, Some(<<>>), ns, 1)
        IN  r.ok /\ SyncAssignFrom(sd, SyncTensors(b, Len(ns), r.l), 1) = sd

\* sd holds, field by field, what clear assigns
IsEmptySnapshot(sd) ==
    /\ sd.n = 0 /\ sd.block = 0
    /\ \A k \in {"stake", "ranks", "trust", "consensus", "incentive", "inflation",
                 "dividends", "active", "lastupdate", "weights", "bonds", "endpoints"} :
          sd[k] = <<>>

SyncSucceeded == last.op = "sync" /\ ~last.raised

(***************************************************************************)
(* Claims.                                                                 *)
(***************************************************************************)
\* C1: a sync that fails inside the per-neuron loop (a pair that cannot be
\* converted) leaves n, block, every vector, both matrices, the endpoints table and
\* the results of hotkeys/coldkeys/modalities/addresses as they were before the call.
C1_FailedSyncKeepsSnapshotAndViews ==
    [][ (last'.op = "sync" /\ last'.arg = "answers" /\ last'.raised)
            => (Snapshot(mg') = Snapshot(mg) /\ Views(mg') = Views(mg)) ]_vars

\* C2: a sync whose get_current_block() or neurons() query fails raises and leaves
\* the whole object (every field and the cached endpoint objects) unchanged.
C2_LedgerFailureChangesNothing ==
    [][ (last'.op = "sync" /\ last'.arg = "ledger fails")
            => (last'.raised /\ mg' = mg) ]_vars

\* a ledger failure met an object that held a populated snapshot and cache
C2_Witness ==
    /\ last.op = "sync" /\ last.arg = "ledger fails"
    /\ mg.n > 0 /\ ~IsNone(mg.endpoint_objs)

\* C3: after a successful sync of n records every per-uid vector (uids, active,
\* stake, ranks, trust, consensus, incentive, inflation, dividends, lastupdate) has
\* length n, weights and bonds are n by n, endpoints has n rows and hotkeys() has
\* length n.
C3_SyncLengths ==
    SyncSucceeded =>
        /\ ~IsNone(mg.uids) /\ Len(Get(mg.uids)) = mg.n
        /\ \A k \in {"active", "stake", "ranks", "trust", "consensus", "incentive",
                     "inflation", "dividends", "lastupdate", "endpoints"} :
              Len(mg[k]) = mg.n
        /\ Len(mg.weights) = mg.n /\ \A i \in 1..Len(mg.weights) : Len(mg.weights[i]) = mg.n
        /\ Len(mg.bonds) = mg.n /\ \A i \in 1..Len(mg.bonds) : Len(mg.bonds[i]) = mg.n
        /\ Len(hotkeys(mg)) = mg.n

\* C4: loading a bundle that was saved from the snapshot of a successful sync
\* succeeds and yields that snapshot field by field, the last-update values the
\* sync stored included.
C4_RoundTrip ==
    [][ (last'.op \in {"load", "load_from_path"} /\ last'.arg = "bundle"
         /\ file.kind = "bundle" /\ IsSyncSnapshot(Get(file.data)))
            => (last'.cause = "none" /\ state_dict(mg') = Get(file.data)) ]_vars

\* C5: loading a bundle that was saved from the empty snapshot (right after
\* construction or clear) succeeds and yields the empty snapshot.
C5_RoundTripEmpty ==
    [][ (last'.op \in {"load", "load_from_path"} /\ last'.arg = "bundle"
         /\ file.kind = "bundle" /\ IsEmptySnapshot(Get(file.data)))
            => (last'.cause = "none" /\ IsEmptySnapshot(mg')) ]_vars

\* C6: at every point a reader can observe, n, block, the vectors, the matrices
\* and the endpoints table are those of one snapshot (the empty one or the one some
\* sync built), and the endpoint objects it is given are those of that snapshot.
C6_ReaderSeesOneSnapshot ==
    /\ IsEmptySnapshot(state_dict(mg)) \/ IsSyncSnapshot(state_dict(mg))
    /\ endpoint_objs(mg).ret = (IF mg.n = 0 THEN <<>> ELSE Decoded(mg))

\* C7: when both concurrent sync calls have returned, the fields and the cached
\* endpoint objects are entirely what one of the two calls built, and the cache
\* has exactly n entries.
C7_LastWriterWins ==
    (\A t \in Threads : loc[t].done) =>
        /\ \E t \in Threads : SyncBody(mg, loc[t].block, loc[t].neurons).mg = mg
        /\ ~IsNone(mg.endpoint_objs) /\ Len(Get(mg.endpoint_objs)) = mg.n

\* C8: in every reachable state hotkeys(), coldkeys(), modalities() and addresses()
\* are the projections of the endpoint records stored in the endpoints table, one
\* entry per row in order, and are empty when n = 0.
C8_ViewsNeverStale ==
    LET d == Decoded(mg)
    IN  /\ hotkeys(mg) = [ i \in 1..Len(d) |-> d[i].hotkey ]
        /\ coldkeys(mg) = [ i \in 1..Len(d) |-> d[i].coldkey ]
        /\ modalities(mg) = [ i \in 1..Len(d) |-> d[i].modality ]
        /\ addresses(mg) = [ i \in 1..Len(d) |-> ip__str__(d[i].ip_type, d[i].ip, d[i].port) ]
        /\ (mg.n = 0 => Views(mg) = << <<>>, <<>>, <<>>, <<>> >>)

\* C9: load on a network whose file does not exist returns normally and leaves
\* every field and the cache unchanged, whatever the state is.
C9_MissingFileLoad ==
    [][ (last'.op = "load" /\ last'.arg = "absent")
            => (~last'.raised /\ mg' = mg) ]_vars

\* a load met no file while the object held a snapshot that had itself been loaded
C9_Witness ==
    /\ last.op = "load" /\ last.arg = "absent"
    /\ mg.n > 0 /\ IsNone(mg.endpoint_objs)

Malformed == last.arg = "garbage" \/ (last.arg = "bundle" /\ last.cause = "KeyError")

\* C10 (as stated): load on a file that exists but is malformed raises to the caller.
C10_MalformedLoadRaises ==
    (last.op \in {"load", "load_from_path"} /\ Malformed) => last.raised

\* C10 (amended): load_from_path on a malformed file raises to the caller; load
\* never raises, on a malformed file no more than on a missing one.
C10_OnlyLoadFromPathRaises ==
    /\ (last.op = "load_from_path" /\ Malformed) => last.raised
    /\ last.op = "load" => ~last.raised

\* load met unreadable bytes and returned normally
C10_Witness == last.op = "load" /\ last.arg = "garbage" /\ ~last.raised

\* what the four accessors return on an empty metagraph
NoViews == << <<>>, <<>>, <<>>, <<>> >>

\* the neuron list the last call, a successful sync, ingested
IngestedNeurons == last.input[2]

\* the block height the ledger answered to the last call, a successful sync
IngestedBlock == last.input[1]

\* C11: right after construction or clear(), n = 0, block = 0, every per-uid vector
\* (uids included, where the object has one) and both matrices and the endpoints
\* table are zero-length and hotkeys/coldkeys/modalities/addresses return empty
\* sequences; the accessors also return empty sequences after a successful sync of
\* an empty neuron list.
C11_EmptyState ==
    /\ last.op \in {"init", "clear"} =>
          /\ mg.n = 0 /\ mg.block = 0
          /\ IsNone(mg.uids) \/ Len(Get(mg.uids)) = 0
          /\ \A k \in {"active", "stake", "ranks", "trust", "consensus", "incentive",
                       "inflation", "dividends", "lastupdate", "weights", "bonds",
                       "endpoints"} : Len(mg[k]) = 0
          /\ Views(mg) = NoViews
    /\ (SyncSucceeded /\ mg.n = 0) => Views(mg) = NoViews

\* row is the dense row of length n that pairs describes: the value of every pair
\* at the column of its peer uid, 0 at every other column
IsDenseRow(row, n, pairs) ==
    /\ Len(row) = n
    /\ \A k \in 1..Len(pairs) : row[pairs[k][1] + 1] = pairs[k][2]
    /\ \A c \in 1..n : (\A k \in 1..Len(pairs) : pairs[k][1] + 1 # c) => row[c] = 0

C14_LoadAllOrNothing ==
    [][ (last'.op \in {"load", "load_from_path"} /\ last'.cause # "none")
            => state_dict(mg') = state_dict(mg) ]_vars

\* the last call replaced the snapshot by one that holds neurons
Replaced ==
    /\ last.op \in {"sync", "load", "load_from_path"} /\ last.cause = "none"
    /\ mg.n # 0

\* C15: for a snapshot with n > 0 the endpoint objects are computed from the
\* endpoints table exactly once: the first access of a derived view after a sync or
\* a load replaced the snapshot finds no cached objects and decodes the table; an
\* access that follows an access reuses the cached objects and decodes nothing, and
\* a call that leaves the snapshot's fields as they are leaves the objects that the
\* accessors hand out as they are.
C15_DecodedOncePerSnapshot ==
    [][ /\ (Replaced /\ last'.op = "views") =>
              (IsNone(mg.endpoint_objs) /\ mg'.endpoint_objs = Some(Decoded(mg)))
        /\ (last.op = "views" /\ last'.op = "views") => mg' = mg
        /\ state_dict(mg') = state_dict(mg) =>
              endpoint_objs(mg').ret = endpoint_objs(mg).ret ]_vars

\* C16: the block a successful sync records is the height at which the neuron list
\* it ingested was read: when the ledger was at height IngestedBlock for
\* get_current_block() and at a height h, the same or a later one, for neurons(),
\* the snapshot that holds the population of height h has block = h.
C16_BlockMatchesNeurons ==
    SyncSucceeded =>
        \A h \in DOMAIN LedgerHistory :
            (IngestedBlock <= h /\ IngestedNeurons = LedgerHistory[h]) => mg.block = F32Int(h)

\* C17: tau is fixed: every call (clear, sync, save, load of a bundle that save
\* wrote, a read of the views) leaves tau at the value it had at initialization,
\* and sync leaves version unchanged as well.
C17_TauFixed ==
    [][ /\ mg'.tau = mg.tau /\ mg'.tau = TauInit
        /\ last'.op = "sync" => mg'.version = mg.version ]_vars

\* a bundle saved from a synced snapshot has been loaded back
C17_Witness ==
    /\ last.op \in {"load", "load_from_path"} /\ last.arg = "bundle" /\ last.cause = "none"
    /\ mg.n > 0 /\ mg.tau = TauInit

\* the client's loop, metagraph.sync().save(): a save that runs on what a sync returned
SyncThenSave == last.op = "sync" /\ ~last.raised /\ last'.op = "save"

\* C18: save (save_to_path) never changes a field or the cached endpoint objects,
\* whether the write succeeds or fails; a save that succeeds leaves the bundle of the
\* object's fields in the file, so in the client's sync().save() the bundle written
\* is the snapshot the sync just produced.
C18_SaveChangesNothing ==
    [][ /\ last'.op = "save" => mg' = mg
        /\ (last'.op = "save" /\ ~last'.raised) => file' = BundleFile(state_dict(mg))
        /\ (SyncThenSave /\ ~last'.raised) =>
              /\ IsSyncSnapshot(Get(file'.data))
              /\ Get(file'.data).block = F32Int(IngestedBlock)
              /\ Get(file'.data).endpoints =
                    [ i \in 1..Len(IngestedNeurons) |-> to_tensor(endpoint(IngestedNeurons[i])) ] ]_vars

\* the client's sync().save() has written the bundle of a snapshot that holds neurons,
\* with the endpoint objects still cached
C18_Witness ==
    /\ last.op = "save" /\ ~last.raised
    /\ file.kind = "bundle" /\ Get(file.data).n > 0 /\ file = BundleFile(state_dict(mg))
    /\ IsSyncSnapshot(Get(file.data))
    /\ ~IsNone(mg.endpoint_objs)

====
